---- MODULE Spec2Model ----
(***************************************************************************)
(* A model of the Record lifecycle of mobx-async-store: Model (save,       *)
(* validate, destroy, dirty tracking, snapshots), ObjectPromiseProxy (the   *)
(* handlers of a save's transport promise) and the serverResponse encoder. *)
(* One Store bucket (one resource type, "todos") is modelled.              *)
(***************************************************************************)
EXTENDS Integers, Sequences, FiniteSets, TLC

\* ------------------------------------------------------------------ bounds
MaxRecords == 2     \* Record instances ever constructed
MaxServerId == 1    \* server-issued ids are 1..MaxServerId
MaxPending == 2     \* transport requests outstanding at once
MaxNotes == 2       \* Records of the related type `notes`

Inst == 1..MaxRecords
Slots == 1..MaxPending
NoteInst == 1..MaxNotes
NoRec == 0          \* "undefined" as the value of a Store lookup

\* ------------------------------------------------------------------ values
Undefined == "undefined"
Null == "null"
\* Values of the declared String attribute `title`; '' is the String default.
Titles == {"", "a"}

NoId == <<"none", 0>>
TmpId(i) == <<"tmp", i>>
SrvId(n) == <<"srv", n>>
TmpIds == {TmpId(i) : i \in Inst}
SrvIds == {SrvId(n) : n \in 1..MaxServerId}
Keys == TmpIds \cup SrvIds

\* An id held as a number (store.add('todos', {id: 1})), and String(id): the
\* string under which the Store bucket indexes it and jsonapi emits it.
NumId(n) == <<"num", n>>
NumIds == {NumId(n) : n \in 1..MaxServerId}
String(k) == IF k[1] = "num" THEN SrvId(k[2]) ELSE k

\* The schema of the modelled type: two declared String attributes, `title`
\* with the default (presence) validator and `description` with none, and
\* the Array attribute `tags`; `created_at` is a property only the server
\* sends.
AttributeNames == {"title", "description", "tags"}
Validated == {"title"}
PropNames == {"title", "description", "tags", "created_at"}
\* The values of the Array attribute, written as their JSON text: the default
\* [] and the array after push('chore').
EmptyArray == "[]"
Pushed == "[chore]"
RelNames == {"notes", "meeting_notes"}
\* Object.keys order of a relationships map.
RelOrder == <<"notes", "meeting_notes">>

\* A relationship value {data: ...}, or an absent key. `data` is the list of
\* the linked ids: a to-one {data: x} is held as the list <<x>> that
\* addIncluded makes of it, and {data: null} as <<NullRef>>.
NullRef == <<"null", 0>>
NoRel == [present |-> FALSE, data |-> <<>>]
RelTo(ids) == [present |-> TRUE, data |-> ids]

NoErrors == [kind |-> "none", status |-> 0, keys |-> {}]
StatusError(s) == [kind |-> "status", status |-> s, keys |-> {}]
RawError(e) == [kind |-> "raw", status |-> e, keys |-> {}]
ValidationErrors(ks) == [kind |-> "validation", status |-> 0, keys |-> ks]

Statuses == {200, 201, 204, 500}
TransportErrors == {1}

\* How the latest step ended: the operation or handler `op` on Record `target`
\* with input `arg` (a status, a transport error, or an option as 0/1), and
\* what it returned or what its promise resolved with (`value`, a Record
\* instance) or rejected with (`error`).
Outcome(op, i, arg, outcome, value, error) ==
    [op |-> op, target |-> i, arg |-> arg, outcome |-> outcome, value |-> value,
     error |-> error]

Flag(b) == IF b THEN 1 ELSE 0

\* A transport request: `stage` is "sent" until the transport promise
\* settles and "body" while the handler awaits response.json().
\* `body` is the parsed request body; a DELETE request has none.
NoBody == [data |-> [type |-> "none"]]
Idle == [kind |-> "idle", stage |-> "none", target |-> NoRec, tmpId |-> NoId,
         method |-> "none", requestId |-> NoId, skipRemove |-> FALSE,
         body |-> NoBody]

\* A save response body: json.data.id (dataId), json.data.attributes (id,
\* title, created_at; a key that is Undefined/NoId is not in the body),
\* json.data.relationships.notes and json.included (at most one resource,
\* given by its id).
AllSaveBodies ==
    [dataId : SrvIds, id : {NoId} \cup SrvIds, title : {Undefined, "a"},
     created_at : {Undefined, "d"}, rel : {"absent", "meta", "data", "null"},
     included : {NoId} \cup SrvIds]

\* The bodies with nothing but (possibly) an id in their attributes.
IdBodies ==
    {b \in AllSaveBodies : /\ b.title = Undefined /\ b.created_at = Undefined
                           /\ b.rel = "absent" /\ b.included = NoId}

\* The bodies drawn as inputs: any id, and at most one other member.
SaveBodies ==
    {b \in AllSaveBodies :
        \E c \in IdBodies :
            \/ b = c
            \/ \E t \in {"a"} : b = [c EXCEPT !.title = t]
            \/ \E d \in {"d"} : b = [c EXCEPT !.created_at = d]
            \/ \E r \in {"meta", "data"} : b = [c EXCEPT !.rel = r]
            \/ \E k \in SrvIds : b = [c EXCEPT !.included = k]}

\* A destroy response body: no JSON at all, or data.attributes.title.
DestroyBodies == [json : BOOLEAN, title : {Undefined, "a"}]

VARIABLES
    made,              \* made[i]: instance i has been constructed
    id,                \* id[i]: the Record's id property
    props,             \* props[i][k]: the Record's own properties
    relationships,     \* relationships[i][r]: the Record's relationships map
    _isDirty,          \* the private dirty flag
    isInFlight,
    errors,
    previousSnapshot,
    captured,          \* history: the properties when previousSnapshot was taken
    records,           \* the Store bucket: key -> instance or NoRec
    pending,           \* pending[s]: a transport request not yet settled
    last,              \* how the most recent operation or promise ended
    srInput,           \* the argument of the latest serverResponse call
    srResult,          \* what that call returned or threw
    notes,             \* notes[t]: the to-many collection `notes` of Todo t
    todo               \* todo[n]: the to-one reference `todo` of Note n

recordVars == <<made, id, props, relationships, _isDirty, isInFlight, errors,
                previousSnapshot, captured, records, pending, last>>

srVars == <<srInput, srResult>>

relVars == <<notes, todo>>

vars == <<recordVars, srVars, relVars>>

\* ----------------------------------------------------------- Model getters
Falsy(v) == v \in {Undefined, Null, ""}

\* A presence test that lets null through.
isPresentOrNull(v) == v # Undefined /\ v # ""

isPresent(v) == v # Null /\ v # Undefined /\ v # ""

validatePresence(v) == isPresent(v)

isNewId(k) == k[1] = "tmp"

isNew(i) == isNewId(id[i])

isDirty(i) == _isDirty[i] \/ isNew(i)

\* get attributes(): the declared attributes, falsy values deleted.
AttributesOf(p) == [k \in AttributeNames |-> IF Falsy(p[k]) THEN Undefined ELSE p[k]]

attributes(i) == AttributesOf(props[i])

SnapshotOf(p, r) == [attributes |-> AttributesOf(p), relationships |-> r]

snapshot(i) == SnapshotOf(props[i], relationships[i])

\* _trackState: the two reactions set the dirty flag when the serialized
\* attributes or relationships change.
Tracked(i, p, r, d) ==
    IF AttributesOf(p) # attributes(i) \/ r # relationships[i] THEN TRUE ELSE d

\* validate(): the attributes whose validator fails.
FailedValidations(i) == {k \in Validated : ~validatePresence(props[i][k])}

ValidateErrors(i) ==
    IF FailedValidations(i) = {} THEN NoErrors
    ELSE ValidationErrors(FailedValidations(i))

\* A validate() that passes whatever the attributes hold.
validateAlwaysPasses(i) == TRUE

\* Model.validate(): true when every validated attribute passes.
validate(i) == FailedValidations(i) = {}

\* ------------------------------------------------------------------- Store
getOne(k) == records[String(k)]

FreeInst == {i \in Inst : ~made[i]}

NextInst == CHOOSE i \in FreeInst : \A j \in FreeInst : i <= j

DefaultProps ==
    [k \in PropNames |-> IF k = "tags" THEN EmptyArray
                         ELSE IF k \in AttributeNames THEN "" ELSE Undefined]

DefaultRels == [r \in RelNames |-> NoRel]

FreshSnapshot == SnapshotOf(DefaultProps, DefaultRels)

\* The argument of serverResponse: null, one Record, or an array of Records.
NoInput == [kind |-> "none", items |-> <<>>]

NoResult == [kind |-> "none"]

Init ==
    /\ made = [i \in Inst |-> FALSE]
    /\ id = [i \in Inst |-> NoId]
    /\ props = [i \in Inst |-> DefaultProps]
    /\ relationships = [i \in Inst |-> DefaultRels]
    /\ _isDirty = [i \in Inst |-> FALSE]
    /\ isInFlight = [i \in Inst |-> FALSE]
    /\ errors = [i \in Inst |-> NoErrors]
    /\ previousSnapshot = [i \in Inst |-> FreshSnapshot]
    /\ captured = [i \in Inst |-> DefaultProps]
    /\ records = [k \in Keys |-> NoRec]
    /\ pending = [s \in Slots |-> Idle]
    /\ last = Outcome("init", NoRec, 0, "none", NoRec, NoErrors)
    /\ srInput = NoInput
    /\ srResult = NoResult
    /\ notes = [t \in Inst |-> <<>>]
    /\ todo = [n \in NoteInst |-> NoRec]

\* Store.add(type, attributes): constructs a Record (Model.constructor: the
\* defaults merged with the initial attributes, the first snapshot, dirty
\* tracking armed), gives it a temporary id when none is supplied and
\* registers it under its id.
StoreAdd(givenId, t) ==
    /\ FreeInst # {}
    /\ LET i == NextInst
           k == IF givenId = NoId THEN TmpId(i) ELSE givenId
           p == [DefaultProps EXCEPT !["title"] = t]
       IN  /\ records[String(k)] = NoRec
           /\ made' = [made EXCEPT ![i] = TRUE]
           /\ id' = [id EXCEPT ![i] = k]
           /\ props' = [props EXCEPT ![i] = p]
           /\ previousSnapshot' = [previousSnapshot EXCEPT ![i] = SnapshotOf(p, DefaultRels)]
           /\ captured' = [captured EXCEPT ![i] = p]
           /\ records' = [records EXCEPT ![String(k)] = i]
           /\ last' = Outcome("add", i, Flag(givenId # NoId), "returned", i, NoErrors)
    /\ UNCHANGED <<relationships, _isDirty, isInFlight, errors, pending>>
    /\ UNCHANGED <<srVars, relVars>>

\* record[k] = v: the attribute setter, then the reaction of _trackState.
Assign(i, k, v) ==
    /\ made[i]
    /\ props[i][k] # v
    /\ LET p == [props[i] EXCEPT ![k] = v]
       IN  /\ props' = [props EXCEPT ![i] = p]
           /\ _isDirty' = [_isDirty EXCEPT ![i] = Tracked(i, p, relationships[i], @)]
    /\ last' = Outcome("set", i, 0, "returned", NoRec, NoErrors)
    /\ UNCHANGED <<made, id, relationships, isInFlight, errors, previousSnapshot, captured,
                   records, pending>>
    /\ UNCHANGED <<srVars, relVars>>

\* record.title = v.
SetAttribute(i, v) == Assign(i, "title", v)

\* record.description = v, an attribute declared without a validator.
SetDescription(i, v) == Assign(i, "description", v)

\* A push that reaches the array a snapshot holds as well, as it would if
\* the snapshot kept the attribute's array instead of a copy of it.
pushShared(i) ==
    /\ made[i]
    /\ props[i]["tags"] = EmptyArray
    /\ LET p == [props[i] EXCEPT !["tags"] = Pushed]
       IN  /\ props' = [props EXCEPT ![i] = p]
           /\ _isDirty' = [_isDirty EXCEPT ![i] = Tracked(i, p, relationships[i], @)]
           /\ previousSnapshot' =
                 [previousSnapshot EXCEPT ![i].attributes["tags"] =
                     IF @ = EmptyArray THEN Pushed ELSE @]
    /\ last' = Outcome("push", i, 0, "returned", NoRec, NoErrors)
    /\ UNCHANGED <<made, id, relationships, isInFlight, errors, captured, records, pending>>
    /\ UNCHANGED <<srVars, relVars>>

\* record.tags.push('chore'): the observable array changes in place, then
\* the reaction of _trackState; a snapshot holds toJS copies of the
\* attributes, so none follows the change.
push(i) ==
    /\ made[i]
    /\ props[i]["tags"] = EmptyArray
    /\ LET p == [props[i] EXCEPT !["tags"] = Pushed]
       IN  /\ props' = [props EXCEPT ![i] = p]
           /\ _isDirty' = [_isDirty EXCEPT ![i] = Tracked(i, p, relationships[i], @)]
    /\ last' = Outcome("push", i, 0, "returned", NoRec, NoErrors)
    /\ UNCHANGED <<made, id, relationships, isInFlight, errors, previousSnapshot, captured,
                   records, pending>>
    /\ UNCHANGED <<srVars, relVars>>

\* record.setPreviousSnapshot(), called on its own.
setPreviousSnapshot(i) ==
    /\ made[i]
    /\ previousSnapshot' = [previousSnapshot EXCEPT ![i] = snapshot(i)]
    /\ captured' = [captured EXCEPT ![i] = props[i]]
    /\ last' = Outcome("setPreviousSnapshot", i, 0, "returned", NoRec, NoErrors)
    /\ UNCHANGED <<made, id, props, relationships, _isDirty, isInFlight, errors, records,
                   pending>>
    /\ UNCHANGED <<srVars, relVars>>

\* record.validate(), called on its own.
Validate(i) ==
    /\ made[i]
    /\ errors' = [errors EXCEPT ![i] = ValidateErrors(i)]
    /\ last' = Outcome("validate", i, 0, IF validate(i) THEN "true" ELSE "false",
                       NoRec, NoErrors)
    /\ UNCHANGED <<made, id, props, relationships, _isDirty, isInFlight, previousSnapshot,
                   captured, records, pending>>
    /\ UNCHANGED <<srVars, relVars>>

\* A change of the Record's `notes` relationship (a record added to or
\* removed from the collection), then the reaction of _trackState.
RelValues == {RelTo(<<>>), RelTo(<<SrvId(1)>>)}

SetRelationship(i, v) ==
    /\ made[i]
    /\ relationships[i]["notes"] # v
    /\ LET r == [relationships[i] EXCEPT !["notes"] = v]
       IN  /\ relationships' = [relationships EXCEPT ![i] = r]
           /\ _isDirty' = [_isDirty EXCEPT ![i] = Tracked(i, props[i], r, @)]
    /\ last' = Outcome("setRelationship", i, 0, "returned", NoRec, NoErrors)
    /\ UNCHANGED <<made, id, props, isInFlight, errors, previousSnapshot, captured,
                   records, pending>>
    /\ UNCHANGED <<srVars, relVars>>

\* Model.rollback(): every declared attribute is assigned what the previous
\* snapshot holds for it, the relationships are replaced by the snapshot's,
\* errors is emptied; the reactions of _trackState run when the transaction
\* ends; then the snapshot is taken again.
rollback(i) ==
    /\ made[i]
    /\ LET p == [k \in PropNames |->
                   IF k \in AttributeNames THEN previousSnapshot[i].attributes[k]
                   ELSE props[i][k]]
           r == previousSnapshot[i].relationships
       IN  /\ props' = [props EXCEPT ![i] = p]
           /\ relationships' = [relationships EXCEPT ![i] = r]
           /\ errors' = [errors EXCEPT ![i] = NoErrors]
           /\ _isDirty' = [_isDirty EXCEPT ![i] = Tracked(i, p, r, @)]
           /\ previousSnapshot' = [previousSnapshot EXCEPT ![i] = SnapshotOf(p, r)]
           /\ captured' = [captured EXCEPT ![i] = p]
    /\ last' = Outcome("rollback", i, 0, "returned", NoRec, NoErrors)
    /\ UNCHANGED <<made, id, isInFlight, records, pending>>
    /\ UNCHANGED <<srVars, relVars>>

\* utils.walk over a snapshot's attributes: the keys the object has.
WalkedKeys(attrs) == {k \in AttributeNames : attrs[k] # Undefined}

\* get dirtyAttributes(): the paths of the previous snapshot's attributes whose
\* value differs from the current snapshot's.
DirtyAttributesOf(prev, cur) ==
    {k \in WalkedKeys(prev.attributes) : prev.attributes[k] # cur.attributes[k]}

dirtyAttributes(i) == DirtyAttributesOf(previousSnapshot[i], snapshot(i))

\* ----------------------------------------------------------------- jsonapi
\* An option of jsonapi(options): absent, or a list of names.
NoOption == [given |-> FALSE, names |-> {}]
Names(ns) == [given |-> TRUE, names |-> ns]

\* A filter that keeps every relationship of the Record, named or not.
EveryRelationshipName(i, relOpt) == {n \in RelNames : relationships[i][n].present}

\* Object.keys(this.relationships).filter(name =>
\* options.relationships.includes(name)).
FilteredRelationshipNames(i, relOpt) ==
    {n \in RelNames : relationships[i][n].present /\ n \in relOpt.names}

\* stringifyIds(rels[key]) raises a TypeError: `property.id` is read of every
\* member whose typeof is 'object', and the data of {data: null} is one.
stringifyIdsThrows(rel) == \E n \in 1..Len(rel.data) : rel.data[n] = NullRef

\* stringifyIds(rels[key]) otherwise: every linked id becomes a string.
stringifyIds(rel) == [n \in 1..Len(rel.data) |-> String(rel.data[n])]

\* Model.jsonapi(options) raises instead of returning.
jsonapiThrows(i, relOpt) ==
    /\ relOpt.given
    /\ \E r \in FilteredRelationshipNames(i, relOpt) : stringifyIdsThrows(relationships[i][r])

\* An encoder that emits the id as the Record holds it.
jsonapiRawId(i, attrOpt, relOpt) ==
    [data |->
        [type |-> "todos",
         hasId |-> ~isNewId(id[i]),
         id |-> IF isNewId(id[i]) THEN NoId ELSE id[i],
         attributes |->
            [k \in IF attrOpt.given THEN AttributeNames \cap attrOpt.names
                    ELSE AttributeNames |-> props[i][k]],
         hasRelationships |-> relOpt.given,
         relationships |->
            [r \in FilteredRelationshipNames(i, relOpt) |-> stringifyIds(relationships[i][r])]]]

\* Model.jsonapi(options): the resource {type, attributes, id, relationships}
\* wrapped as {data: resource}. A falsy attribute is emitted as it is, the id
\* is String(id) and is deleted when it is a temporary id, and the
\* relationships key is there only when options.relationships is.
jsonapi(i, attrOpt, relOpt) ==
    [data |->
        [type |-> "todos",
         hasId |-> ~isNewId(String(id[i])),
         id |-> IF isNewId(String(id[i])) THEN NoId ELSE String(id[i]),
         attributes |->
            [k \in IF attrOpt.given THEN AttributeNames \cap attrOpt.names
                    ELSE AttributeNames |-> props[i][k]],
         hasRelationships |-> relOpt.given,
         relationships |->
            [r \in FilteredRelationshipNames(i, relOpt) |-> stringifyIds(relationships[i][r])]]]

toFullJsonapi(i) ==
    jsonapi(i, NoOption, Names({n \in RelNames : relationships[i][n].present}))

\* toFullJsonapi(model) raises instead of returning.
toFullJsonapiThrows(i) ==
    jsonapiThrows(i, Names({n \in RelNames : relationships[i][n].present}))

\* JSON.stringify(document), read back: a member whose value is undefined
\* is not in the text.
JSONstringify(doc) ==
    LET attrs == doc.data.attributes
    IN  [data |-> [doc.data EXCEPT
            !.attributes = [k \in {a \in DOMAIN attrs : attrs[a] # Undefined} |-> attrs[k]]]]

\* -------------------------------------------------------------------- save
FreeSlots == {s \in Slots : pending[s] = Idle}

NextSlot == CHOOSE s \in FreeSlots : \A u \in FreeSlots : s <= u

\* Model.save(options) up to the return of the decorated promise,
\* ObjectPromiseProxy's first two lines included.
save(i, skip_validations, attrOpt, relOpt) ==
    /\ made[i]
    /\ IF ~skip_validations /\ ~validate(i)
       THEN /\ errors' = [errors EXCEPT ![i] = ValidateErrors(i)]
            /\ last' = Outcome("save", i, Flag(skip_validations), "rejected", NoRec, ValidateErrors(i))
            /\ UNCHANGED <<isInFlight, pending>>
       ELSE IF jsonapiThrows(i, relOpt)
       THEN /\ errors' = IF skip_validations THEN errors
                         ELSE [errors EXCEPT ![i] = NoErrors]
            /\ last' = Outcome("save", i, Flag(skip_validations), "threw", NoRec, NoErrors)
            /\ UNCHANGED <<isInFlight, pending>>
       ELSE /\ FreeSlots # {}
            /\ errors' = IF skip_validations THEN errors
                         ELSE [errors EXCEPT ![i] = NoErrors]
            /\ pending' = [pending EXCEPT ![NextSlot] =
                   [kind |-> "save", stage |-> "sent", target |-> i, tmpId |-> id[i],
                    method |-> IF isNew(i) THEN "POST" ELSE "PATCH",
                    requestId |-> IF isNew(i) THEN NoId ELSE id[i],
                    skipRemove |-> FALSE,
                    body |-> JSONstringify(jsonapi(i, attrOpt, relOpt))]]
            /\ isInFlight' = [isInFlight EXCEPT ![i] = TRUE]
            /\ last' = Outcome("save", i, Flag(skip_validations), "pending", NoRec, NoErrors)
    /\ UNCHANGED <<made, id, props, relationships, _isDirty, previousSnapshot, captured, records>>
    /\ UNCHANGED <<srVars, relVars>>

\* Store.createModelsFromData(json.included) for an included resource with id
\* k and attributes {title: "a"}: merged into the Record registered under k,
\* or constructed and registered when there is none. The operators give the
\* values after the call from the values before it.
IncludedTitle == "a"

IncludedHit(k, recs) == k # NoId /\ recs[k] # NoRec

IncludedNew(k, recs) == k # NoId /\ recs[k] = NoRec

IncProps(k, ps, recs) ==
    IF IncludedHit(k, recs) THEN [ps EXCEPT ![recs[k]]["title"] = IncludedTitle]
    ELSE IF IncludedNew(k, recs)
         THEN [ps EXCEPT ![NextInst] = [DefaultProps EXCEPT !["title"] = IncludedTitle]]
         ELSE ps

IncDirty(k, ds, ps, recs) ==
    IF IncludedHit(k, recs)
    THEN [ds EXCEPT ![recs[k]] =
            IF AttributesOf(IncProps(k, ps, recs)[recs[k]]) # AttributesOf(ps[recs[k]])
            THEN TRUE ELSE @]
    ELSE ds

IncMade(k, recs) == IF IncludedNew(k, recs) THEN [made EXCEPT ![NextInst] = TRUE] ELSE made

IncId(k, ids, recs) == IF IncludedNew(k, recs) THEN [ids EXCEPT ![NextInst] = k] ELSE ids

IncSnapshots(k, recs) ==
    IF IncludedNew(k, recs)
    THEN [previousSnapshot EXCEPT ![NextInst] =
            SnapshotOf([DefaultProps EXCEPT !["title"] = IncludedTitle], DefaultRels)]
    ELSE previousSnapshot

IncCaptured(k, recs) ==
    IF IncludedNew(k, recs)
    THEN [captured EXCEPT ![NextInst] = [DefaultProps EXCEPT !["title"] = IncludedTitle]]
    ELSE captured

IncRecords(k, recs) == IF IncludedNew(k, recs) THEN [recs EXCEPT ![k] = NextInst] ELSE recs
\* A response handler whose error branch leaves isInFlight as it was.
SaveResponseKeepsInFlight(s, status) ==
    /\ pending[s].kind = "save" /\ pending[s].stage = "sent"
    /\ LET t == pending[s].target
       IN  IF status = 200 \/ status = 201
           THEN /\ pending' = [pending EXCEPT ![s].stage = "body"]
                /\ last' = Outcome("saveResponse", t, status, "pending", NoRec, NoErrors)
                /\ UNCHANGED <<isInFlight, errors>>
           ELSE /\ isInFlight' = isInFlight
                /\ errors' = [errors EXCEPT ![t] = StatusError(status)]
                /\ pending' = [pending EXCEPT ![s] = Idle]
                /\ last' = Outcome("saveResponse", t, status, "resolved", t, NoErrors)
    /\ UNCHANGED <<made, id, props, relationships, _isDirty, previousSnapshot, captured, records>>
    /\ UNCHANGED <<srVars, relVars>>

\* ObjectPromiseProxy, the fulfilment handler up to `await response.json()`
\* for status 200/201, and its else branch for every other status.
SaveResponse(s, status) ==
    /\ pending[s].kind = "save" /\ pending[s].stage = "sent"
    /\ LET t == pending[s].target
       IN  IF status = 200 \/ status = 201
           THEN /\ pending' = [pending EXCEPT ![s].stage = "body"]
                /\ last' = Outcome("saveResponse", t, status, "pending", NoRec, NoErrors)
                /\ UNCHANGED <<isInFlight, errors>>
           ELSE /\ isInFlight' = [isInFlight EXCEPT ![t] = FALSE]
                /\ errors' = [errors EXCEPT ![t] = StatusError(status)]
                /\ pending' = [pending EXCEPT ![s] = Idle]
                /\ last' = Outcome("saveResponse", t, status, "resolved", t, NoErrors)
    /\ UNCHANGED <<made, id, props, relationships, _isDirty, previousSnapshot, captured, records>>
    /\ UNCHANGED <<srVars, relVars>>

\* The id the Record has after `target[key] = attributes[key]` for every key
\* of json.data.attributes.
IdAfterSave(t, body) == IF body.id # NoId THEN body.id ELSE id[t]

PropsAfterSave(t, body) ==
    [k \in PropNames |->
        IF k \in DOMAIN body /\ body[k] # Undefined THEN body[k] ELSE props[t][k]]

\* json.data.relationships: a relationship that has a `meta` key is skipped.
RelsAfterSave(t, body) ==
    IF body.rel = "data" THEN [relationships[t] EXCEPT !["notes"] = RelTo(<<SrvId(1)>>)]
    ELSE IF body.rel = "null"
         THEN [relationships[t] EXCEPT !["meeting_notes"] = RelTo(<<NullRef>>)]
         ELSE relationships[t]

\* The Store bucket after the second transaction of the handler.
RecordsAfterSave(recs, tmpId, t, newId) ==
    [recs EXCEPT ![String(tmpId)] = t, ![String(newId)] = t]

\* ObjectPromiseProxy, the fulfilment handler after `await response.json()`.
SaveBody(s, body) ==
    /\ pending[s].kind = "save" /\ pending[s].stage = "body"
    /\ IncludedNew(body.included, records) => FreeInst # {}
    /\ LET t == pending[s].target
           tmpId == pending[s].tmpId
           newId == IdAfterSave(t, body)
           p1 == [props EXCEPT ![t] = PropsAfterSave(t, body)]
           r1 == [relationships EXCEPT ![t] = RelsAfterSave(t, body)]
           p2 == IncProps(body.included, p1, records)
           d2 == IncDirty(body.included, _isDirty, p1, records)
           recs2 == IncRecords(body.included, records)
       IN  /\ made' = IncMade(body.included, records)
           /\ id' = [IncId(body.included, id, records) EXCEPT ![t] = newId]
           /\ props' = p2
           /\ relationships' = r1
           /\ isInFlight' = [isInFlight EXCEPT ![t] = FALSE]
           /\ _isDirty' = [d2 EXCEPT ![t] = FALSE]
           /\ previousSnapshot' = [IncSnapshots(body.included, records) EXCEPT
                                     ![t] = SnapshotOf(p2[t], r1[t])]
           /\ captured' = [IncCaptured(body.included, records) EXCEPT ![t] = p2[t]]
           /\ records' = RecordsAfterSave(recs2, tmpId, t, newId)
           /\ pending' = [pending EXCEPT ![s] = Idle]
           /\ last' = Outcome("saveBody", t, 0, "resolved", t, NoErrors)
    /\ UNCHANGED errors
    /\ UNCHANGED <<srVars, relVars>>
\* ObjectPromiseProxy, the fulfilment handler when `await response.json()`
\* rejects (the body is no JSON) or `json.data` is undefined (a TypeError at
\* the destructuring): the handler throws before it has assigned anything,
\* and the rejection handler, registered on the same then(), does not run.
SaveBodyFails(s, error) ==
    /\ pending[s].kind = "save" /\ pending[s].stage = "body"
    /\ pending' = [pending EXCEPT ![s] = Idle]
    /\ last' = Outcome("saveBody", pending[s].target, 0, "rejected", NoRec, [kind |-> error])
    /\ UNCHANGED <<made, id, props, relationships, _isDirty, isInFlight, errors,
                   previousSnapshot, captured, records>>
    /\ UNCHANGED <<srVars, relVars>>

\* A rejection handler that returns the target instead of rethrowing.
TransportRejectSwallowed(s, e) ==
    /\ pending[s].kind \in {"save", "destroy"} /\ pending[s].stage = "sent"
    /\ LET t == pending[s].target
       IN  /\ isInFlight' = [isInFlight EXCEPT ![t] = FALSE]
           /\ errors' = [errors EXCEPT ![t] = RawError(e)]
           /\ pending' = [pending EXCEPT ![s] = Idle]
           /\ last' = Outcome(IF pending[s].kind = "save" THEN "saveReject" ELSE "destroyReject",
                              t, e, "resolved", t, NoErrors)
    /\ UNCHANGED <<made, id, props, relationships, _isDirty, previousSnapshot, captured, records>>
    /\ UNCHANGED <<srVars, relVars>>

\* The rejection handler of ObjectPromiseProxy and of Model.destroy.
TransportReject(s, e) ==
    /\ pending[s].kind \in {"save", "destroy"} /\ pending[s].stage = "sent"
    /\ LET t == pending[s].target
       IN  /\ isInFlight' = [isInFlight EXCEPT ![t] = FALSE]
           /\ errors' = [errors EXCEPT ![t] = RawError(e)]
           /\ pending' = [pending EXCEPT ![s] = Idle]
           /\ last' = Outcome(IF pending[s].kind = "save" THEN "saveReject" ELSE "destroyReject",
                              t, e, "rejected", NoRec, RawError(e))
    /\ UNCHANGED <<made, id, props, relationships, _isDirty, previousSnapshot, captured, records>>
    /\ UNCHANGED <<srVars, relVars>>

\* Store.remove(type, id): evicts the key; a no-op when it is absent.
StoreRemove(recs, k) ==
    IF String(k) \in Keys THEN [recs EXCEPT ![String(k)] = NoRec] ELSE recs

\* A destroy() that sends the DELETE request whether the Record is new or not.
destroyAlwaysRequests(i, skipRemove) ==
    /\ made[i]
    /\ FreeSlots # {}
    /\ isInFlight' = [isInFlight EXCEPT ![i] = TRUE]
    /\ errors' = [errors EXCEPT ![i] = NoErrors]
    /\ pending' = [pending EXCEPT ![NextSlot] =
           [kind |-> "destroy", stage |-> "sent", target |-> i, tmpId |-> id[i],
            method |-> "DELETE", requestId |-> id[i], skipRemove |-> skipRemove,
                    body |-> NoBody]]
    /\ last' = Outcome("destroy", i, Flag(skipRemove), "pending", NoRec, NoErrors)
    /\ UNCHANGED <<made, id, props, relationships, _isDirty, previousSnapshot, captured, records>>
    /\ UNCHANGED <<srVars, relVars>>

\* Model.destroy(options) up to the return of its promise. A new Record is
\* removed locally and its snapshot returned.
destroy(i, skipRemove) ==
    /\ made[i]
    /\ IF isNew(i)
       THEN /\ records' = StoreRemove(records, id[i])
            /\ last' = Outcome("destroy", i, Flag(skipRemove), "returned", snapshot(i), NoErrors)
            /\ UNCHANGED <<isInFlight, errors, pending>>
       ELSE /\ FreeSlots # {}
            /\ isInFlight' = [isInFlight EXCEPT ![i] = TRUE]
            /\ errors' = [errors EXCEPT ![i] = NoErrors]
            /\ pending' = [pending EXCEPT ![NextSlot] =
                   [kind |-> "destroy", stage |-> "sent", target |-> i, tmpId |-> id[i],
                    method |-> "DELETE", requestId |-> id[i], skipRemove |-> skipRemove,
                    body |-> NoBody]]
            /\ last' = Outcome("destroy", i, Flag(skipRemove), "pending", NoRec, NoErrors)
            /\ UNCHANGED records
    /\ UNCHANGED <<made, id, props, relationships, _isDirty, previousSnapshot, captured>>
    /\ UNCHANGED <<srVars, relVars>>

\* Model.destroy, the fulfilment handler up to `await response.json()` for
\* status 202/204, and its else branch for every other status.
DestroyResponse(s, status) ==
    /\ pending[s].kind = "destroy" /\ pending[s].stage = "sent"
    /\ LET t == pending[s].target
       IN  /\ isInFlight' = [isInFlight EXCEPT ![t] = FALSE]
           /\ IF status = 202 \/ status = 204
              THEN /\ records' = IF pending[s].skipRemove THEN records
                                 ELSE StoreRemove(records, pending[s].requestId)
                   /\ pending' = [pending EXCEPT ![s].stage = "body"]
                   /\ last' = Outcome("destroyResponse", t, status, "pending", NoRec, NoErrors)
                   /\ UNCHANGED errors
              ELSE /\ errors' = [errors EXCEPT ![t] = StatusError(status)]
                   /\ pending' = [pending EXCEPT ![s] = Idle]
                   /\ last' = Outcome("destroyResponse", t, status, "resolved", t, NoErrors)
                   /\ UNCHANGED records
    /\ UNCHANGED <<made, id, props, relationships, _isDirty, previousSnapshot, captured>>
    /\ UNCHANGED <<srVars, relVars>>

\* Model.destroy, the fulfilment handler after `await response.json()`: the
\* attributes of the body, when it is JSON and has any, are set on the Record.
DestroyBody(s, body) ==
    /\ pending[s].kind = "destroy" /\ pending[s].stage = "body"
    /\ LET t == pending[s].target
           p == IF body.json /\ body.title # Undefined
                THEN [props[t] EXCEPT !["title"] = body.title] ELSE props[t]
       IN  /\ props' = [props EXCEPT ![t] = p]
           /\ _isDirty' = [_isDirty EXCEPT ![t] = Tracked(t, p, relationships[t], @)]
           /\ pending' = [pending EXCEPT ![s] = Idle]
           /\ last' = Outcome("destroyBody", t, 0, "resolved", t, NoErrors)
    /\ UNCHANGED <<made, id, relationships, isInFlight, errors, previousSnapshot, captured, records>>
    /\ UNCHANGED <<srVars, relVars>>

\* The lifecycle of one Record: the first Record added to the Store, every
\* local mutation of it, every request on it and every way a request ends.
\* A second Record comes to exist only through json.included.
First == CHOOSE i \in Inst : \A j \in Inst : i <= j

\* One Record, assignments of any value to its attributes, validate() and
\* saves, one at a time, that leave errors behind.
AttributeValues == Titles \cup {Undefined, Null}

NextValidate ==
    \/ \E k \in {NoId} \cup SrvIds, t \in Titles : FreeInst = Inst /\ StoreAdd(k, t)
    \/ \E v \in AttributeValues : SetAttribute(First, v)
    \/ \E v \in AttributeValues : SetDescription(First, v)
    \/ Validate(First)
    \/ \E skip \in BOOLEAN : FreeSlots = Slots /\ save(First, skip, NoOption, NoOption)
    \/ \E s \in Slots : SaveResponse(s, 500)

SpecValidate == Init /\ [][NextValidate]_vars

\* One Record and its saves, one at a time, with every way a save's
\* transport call settles; a request that has been issued is answered.
NextSettle ==
    \/ \E k \in {NoId} \cup SrvIds, t \in Titles : FreeInst = Inst /\ StoreAdd(k, t)
    \/ \E v \in Titles : SetAttribute(First, v)
    \/ \E skip \in BOOLEAN : FreeSlots = Slots /\ save(First, skip, NoOption, NoOption)
    \/ \E s \in Slots, status \in Statuses : SaveResponse(s, status)
    \/ \E s \in Slots, body \in IdBodies : SaveBody(s, body)
    \/ \E s \in Slots, error \in {"SyntaxError", "TypeError"} : SaveBodyFails(s, error)
    \/ \E s \in Slots, e \in TransportErrors : TransportReject(s, e)

Settles ==
    \E s \in Slots :
        \/ \E status \in Statuses : SaveResponse(s, status)
        \/ \E body \in IdBodies : SaveBody(s, body)
        \/ \E error \in {"SyntaxError", "TypeError"} : SaveBodyFails(s, error)
        \/ \E e \in TransportErrors : TransportReject(s, e)

SpecSettle == Init /\ [][NextSettle]_vars /\ WF_vars(Settles)

\* ----------------------------------------------------------- relationships
\* Todo.notes is a to-many collection whose declared inverse is the to-one
\* Note.todo. The collection holds no Record twice.
Contains(t, n) == \E x \in 1..Len(notes[t]) : notes[t][x] = n

Without(seq, n) == SelectSeq(seq, LAMBDA m : m # n)

\* todo.notes.add(note): idempotent on the Record; the inverse to-one of the
\* note is written directly, without going through its setter.
CollectionAdd(t, n) ==
    /\ notes' = [notes EXCEPT ![t] = IF Contains(t, n) THEN @ ELSE Append(@, n)]
    /\ todo' = [todo EXCEPT ![n] = t]
    /\ last' = Outcome("notes.add", t, n, "returned", NoRec, NoErrors)
    /\ UNCHANGED <<made, id, props, relationships, _isDirty, isInFlight, errors,
                   previousSnapshot, captured, records, pending>>
    /\ UNCHANGED srVars

\* todo.notes.remove(note): the note leaves the collection and its inverse
\* to-one is cleared; nothing happens when the note is not a member.
CollectionRemove(t, n) ==
    /\ notes' = [notes EXCEPT ![t] = Without(@, n)]
    /\ todo' = IF Contains(t, n) THEN [todo EXCEPT ![n] = NoRec] ELSE todo
    /\ last' = Outcome("notes.remove", t, n, "returned", NoRec, NoErrors)
    /\ UNCHANGED <<made, id, props, relationships, _isDirty, isInFlight, errors,
                   previousSnapshot, captured, records, pending>>
    /\ UNCHANGED srVars

\* note.todo = v (a Todo, or null as NoRec): the other side follows: the note
\* leaves the collection of the Todo it referenced and joins the collection
\* of the Todo it now references.
SetToOne(n, v) ==
    /\ todo' = [todo EXCEPT ![n] = v]
    /\ notes' = [t \in Inst |->
                    IF t = v THEN (IF Contains(t, n) THEN notes[t] ELSE Append(notes[t], n))
                    ELSE IF t = todo[n] THEN Without(notes[t], n)
                    ELSE notes[t]]
    /\ last' = Outcome("todo=", n, v, "returned", NoRec, NoErrors)
    /\ UNCHANGED <<made, id, props, relationships, _isDirty, isInFlight, errors,
                   previousSnapshot, captured, records, pending>>
    /\ UNCHANGED srVars

\* Todos and Notes, and every mutation of the relationship between them.
NextRel ==
    \/ \E t \in Inst, n \in NoteInst : CollectionAdd(t, n)
    \/ \E t \in Inst, n \in NoteInst : CollectionRemove(t, n)
    \/ \E n \in NoteInst, v \in Inst \cup {NoRec} : SetToOne(n, v)

SpecRel == Init /\ [][NextRel]_vars

NextRecord ==
    \/ \E k \in {NoId} \cup SrvIds, t \in Titles : FreeInst = Inst /\ StoreAdd(k, t)
    \/ \E v \in Titles : SetAttribute(First, v)
    \/ \E skip \in BOOLEAN : save(First, skip, NoOption, NoOption)
    \/ \E s \in Slots, status \in Statuses : SaveResponse(s, status)
    \/ \E s \in Slots, body \in {b \in SaveBodies : b.included = NoId} : SaveBody(s, body)
    \/ \E s \in Slots, e \in TransportErrors : TransportReject(s, e)
    \/ \E skipRemove \in BOOLEAN : destroy(First, skipRemove)
    \/ \E s \in Slots, status \in Statuses : DestroyResponse(s, status)
    \/ \E s \in Slots, body \in DestroyBodies : DestroyBody(s, body)

Spec == Init /\ [][NextRecord]_vars

\* The Store with several Records: adds, saves and destroys of any Record,
\* with responses that differ in status and in the id they assign.
NextStore ==
    \/ \E k \in {NoId} \cup SrvIds : StoreAdd(k, "a")
    \/ \E i \in Inst : save(i, FALSE, NoOption, NoOption)
    \/ \E s \in Slots, status \in {201, 500} : SaveResponse(s, status)
    \/ \E s \in Slots, body \in IdBodies : SaveBody(s, body)
    \/ \E s \in Slots, e \in TransportErrors : TransportReject(s, e)
    \/ \E i \in Inst, skipRemove \in BOOLEAN : destroy(i, skipRemove)
    \/ \E s \in Slots, status \in {204, 500} : DestroyResponse(s, status)
    \/ \E s \in Slots : DestroyBody(s, [json |-> FALSE, title |-> Undefined])

SpecStore == Init /\ [][NextStore]_vars

\* One Record and its local operations: assignments, rollback, and saves,
\* one at a time, that succeed or fail.
NextLocal ==
    \/ \E k \in {NoId} \cup SrvIds, t \in Titles : FreeInst = Inst /\ StoreAdd(k, t)
    \/ \E v \in Titles \cup {Undefined} : SetAttribute(First, v)
    \/ \E v \in RelValues : SetRelationship(First, v)
    \/ rollback(First)
    \/ \E skip \in BOOLEAN : FreeSlots = Slots /\ save(First, skip, NoOption, NoOption)
    \/ \E s \in Slots, status \in {201, 500} : SaveResponse(s, status)
    \/ \E s \in Slots, body \in SaveBodies : SaveBody(s, body)

SpecLocal == Init /\ [][NextLocal]_vars

\* One Record and everything that may touch its snapshot: assignments, a
\* push into its array attribute, relationship changes, validate(),
\* rollback(), setPreviousSnapshot(), and saves and destroys, one request at
\* a time, with every kind of response.
NextSnapshot ==
    \/ \E k \in {NoId} \cup SrvIds : FreeInst = Inst /\ StoreAdd(k, "a")
    \/ \E v \in Titles : SetAttribute(First, v)
    \/ push(First)
    \/ \E v \in RelValues : SetRelationship(First, v)
    \/ Validate(First)
    \/ rollback(First)
    \/ setPreviousSnapshot(First)
    \/ \E skip \in BOOLEAN : FreeSlots = Slots /\ save(First, skip, NoOption, NoOption)
    \/ \E s \in Slots, status \in {201, 500} : SaveResponse(s, status)
    \/ \E s \in Slots, body \in IdBodies : SaveBody(s, body)
    \/ \E s \in Slots, e \in TransportErrors : TransportReject(s, e)
    \/ FreeSlots = Slots /\ destroy(First, FALSE)
    \/ \E s \in Slots, status \in {204, 500} : DestroyResponse(s, status)
    \/ \E s \in Slots : DestroyBody(s, [json |-> FALSE, title |-> Undefined])

SpecSnapshot == Init /\ [][NextSnapshot]_vars

\* One Record and the requests of its saves, one at a time: an id given as a
\* number or as a string or not at all, every choice of the attributes and
\* relationships options, and responses that set its relationships.
AttributeOptions == {NoOption, Names({}), Names({"title"}), Names({"created_at"})}
RelationshipOptions == {NoOption, Names({}), Names({"notes"}), Names(RelNames)}
RequestBodies ==
    {b \in AllSaveBodies :
        \E c \in IdBodies : \E r \in {"absent", "data", "null"} : b = [c EXCEPT !.rel = r]}

NextRequest ==
    \/ \E k \in {NoId} \cup SrvIds \cup NumIds, t \in Titles : FreeInst = Inst /\ StoreAdd(k, t)
    \/ \E v \in Titles \cup {Undefined} : SetAttribute(First, v)
    \/ \E skip \in BOOLEAN, a \in AttributeOptions, r \in RelationshipOptions :
            FreeSlots = Slots /\ save(First, skip, a, r)
    \/ \E s \in Slots, status \in {201, 500} : SaveResponse(s, status)
    \/ \E s \in Slots, body \in RequestBodies : SaveBody(s, body)

SpecRequest == Init /\ [][NextRequest]_vars

\* ------------------------------------------------------------------ encoder
\* encodedModel.relationships is defined.
HasRelationships(e) == "relationships" \in DOMAIN e /\ e.hasRelationships

\* encodedModel.type === type && encodedModel.id === id, for the one type.
SameResource(e, k) == "type" \in DOMAIN e /\ "id" \in DOMAIN e /\ e.hasId /\ e.id = k

KeysOf(rels) == SelectSeq(RelOrder, LAMBDA r : r \in DOMAIN rels)

\* The depth at which the call stack of the runtime is exhausted.
MaxStack == 6

Ended(kind, included) == [kind |-> kind, included |-> included]

RECURSIVE addIncluded(_, _, _, _)
RECURSIVE EachKey(_, _, _, _, _)
RECURSIVE EachRelationship(_, _, _, _, _)

\* notAlreadyIncluded.forEach(...): the linked Record is fetched from the
\* Store, encoded, pushed and recursed into.
EachRelationship(rs, e, included, allEncoded, depth) ==
    IF rs = <<>> THEN Ended("ok", included)
    ELSE LET relatedModel == getOne(Head(rs))
         IN  IF relatedModel = NoRec THEN Ended("TypeError", included)
             ELSE IF toFullJsonapiThrows(relatedModel) THEN Ended("TypeError", included)
             ELSE LET encodedRelatedModel == toFullJsonapi(relatedModel)
                      pushed == Append(included, encodedRelatedModel)
                      r == addIncluded(encodedRelatedModel, pushed,
                                       allEncoded \o pushed \o <<e>>, depth + 1)
                  IN  IF r.kind # "ok" THEN r
                      ELSE EachRelationship(Tail(rs), e, r.included, allEncoded, depth)

\* Object.keys(relationships).forEach(...): the identifiers of one
\* relationship that match nothing in allEncoded are walked.
EachKey(ks, e, included, allEncoded, depth) ==
    IF ks = <<>> THEN Ended("ok", included)
    ELSE LET data == e.relationships[Head(ks)]
         IN  IF \E n \in 1..Len(data) : data[n] = NullRef
             THEN Ended("TypeError", included)
             ELSE LET notAlreadyIncluded ==
                          SelectSeq(data, LAMBDA k :
                              ~\E n \in 1..Len(allEncoded) : SameResource(allEncoded[n], k))
                      r == EachRelationship(notAlreadyIncluded, e, included,
                                            allEncoded, depth)
                  IN  IF r.kind # "ok" THEN r
                      ELSE EachKey(Tail(ks), e, r.included, allEncoded, depth)

\* addIncluded(store, encodedModel, included, allEncoded): how the call ends
\* ("ok", or the error it throws) and the included array it leaves.
addIncluded(e, included, allEncoded, depth) ==
    IF depth > MaxStack THEN Ended("RangeError", included)
    ELSE IF ~HasRelationships(e) THEN Ended("TypeError", included)
    ELSE EachKey(KeysOf(e.relationships), e, included, allEncoded, depth)

RECURSIVE EachPrimary(_, _, _)

\* encodedData.data.forEach(...) of the array branch of serverResponse.
EachPrimary(data, n, included) ==
    IF n > Len(data) THEN Ended("ok", included)
    ELSE LET r == addIncluded(data[n], included, data \o included, 1)
         IN  IF r.kind # "ok" THEN r ELSE EachPrimary(data, n + 1, r.included)

Document(isArray, data, hasIncluded, included) ==
    [kind |-> "json", isArray |-> isArray, data |-> data,
     hasIncluded |-> hasIncluded, included |-> included]

Thrown(kind) == [kind |-> kind]

\* serverResponse(modelOrArray): the document it returns (before
\* JSON.stringify), or the error it throws.
serverResponse(input) ==
    IF input.kind = "null" THEN Thrown("Error")
    ELSE IF \E n \in 1..Len(input.items) : toFullJsonapiThrows(input.items[n])
    THEN Thrown("TypeError")
    ELSE IF input.kind = "model"
    THEN LET data == toFullJsonapi(input.items[1])
             r == addIncluded(data, <<>>, <<data>>, 1)
         IN  IF r.kind = "ok" THEN Document(FALSE, <<data>>, TRUE, r.included)
             ELSE Thrown(r.kind)
    ELSE IF Len(input.items) > 0
    THEN LET data == [n \in 1..Len(input.items) |-> toFullJsonapi(input.items[n])]
             r == EachPrimary(data, 1, <<>>)
         IN  IF r.kind = "ok" THEN Document(TRUE, data, TRUE, r.included)
             ELSE Thrown(r.kind)
    ELSE Document(TRUE, <<>>, FALSE, <<>>)

\* The arguments drawn: null, a Record of the Store, an array of Records.
SrInputs ==
    {[kind |-> "null", items |-> <<>>]}
    \cup {[kind |-> "model", items |-> <<i>>] : i \in Inst}
    \cup {[kind |-> "array", items |-> <<>>]}
    \cup {[kind |-> "array", items |-> <<i>>] : i \in Inst}
    \cup {[kind |-> "array", items |-> <<i, j>>] : i \in Inst, j \in Inst}

ServerResponseCall(input) ==
    /\ srInput' = input
    /\ srResult' = serverResponse(input)
    /\ UNCHANGED <<recordVars, relVars>>

\* A Store holding MaxRecords Records, each new or persisted, with any
\* relationships among them: absent, empty, one identifier (of a Record of
\* the Store or of none) or null.
SrIds == {f \in [Inst -> Keys] :
            /\ \A i \in Inst : f[i] \in {TmpId(i)} \cup SrvIds
            /\ \A i, j \in Inst : i # j => f[i] # f[j]}

SrRelValues == {NoRel, RelTo(<<>>)} \cup {RelTo(<<k>>) : k \in Keys \cup {NullRef}}

InitSR ==
    \E f \in SrIds, rels \in [Inst -> [RelNames -> SrRelValues]] :
        /\ made = [i \in Inst |-> TRUE]
        /\ id = f
        /\ props = [i \in Inst |-> [DefaultProps EXCEPT !["title"] = "a"]]
        /\ relationships = rels
        /\ _isDirty = [i \in Inst |-> FALSE]
        /\ isInFlight = [i \in Inst |-> FALSE]
        /\ errors = [i \in Inst |-> NoErrors]
        /\ previousSnapshot =
              [i \in Inst |-> SnapshotOf([DefaultProps EXCEPT !["title"] = "a"], rels[i])]
        /\ captured = [i \in Inst |-> [DefaultProps EXCEPT !["title"] = "a"]]
        /\ records = [k \in Keys |->
                        IF \E i \in Inst : f[i] = k
                        THEN CHOOSE i \in Inst : f[i] = k ELSE NoRec]
        /\ pending = [s \in Slots |-> Idle]
        /\ last = Outcome("init", NoRec, 0, "none", NoRec, NoErrors)
        /\ srInput = NoInput
        /\ srResult = NoResult
        /\ notes = [t \in Inst |-> <<>>]
        /\ todo = [n \in NoteInst |-> NoRec]

NextSR == \E input \in SrInputs : ServerResponseCall(input)

SpecSR == InitSR /\ [][NextSR]_vars

\* ------------------------------------------------------------------ claims

\* C1: once a save of a Record that carried temporary id t has resolved with
\* 200/201, the Store resolves both t and the Record's current id to that
\* Record, and keeps doing so over every later add and save, until the key is
\* removed.
C1_AliasKept ==
    [][\A i \in Inst :
        LET t == TmpId(i)
        IN  /\ (/\ last'.op = "saveBody" /\ last'.target = i
                /\ \E s \in Slots : /\ pending[s].stage = "body" /\ pending'[s] = Idle
                                    /\ pending[s].tmpId = t)
                => (records'[t] = i /\ records'[id'[i]] = i)
            /\ (made[i] /\ ~isNew(i) /\ records[t] = i /\ records[id[i]] = i)
                => (records'[t] \in {i, NoRec} /\ records'[id'[i]] \in {i, NoRec})]_vars

\* C2: identity map. No two Record instances that the Store resolves have the
\* same id, and a key that resolves to one instance never comes to resolve to
\* another one.
C2_IdentityMap ==
    [][/\ \A k \in Keys : records[k] # NoRec => records'[k] \in {records[k], NoRec}
       /\ \A i, j \in Inst :
            (/\ i # j
             /\ \E k \in Keys : records'[k] = i
             /\ \E k \in Keys : records'[k] = j) => id'[i] # id'[j]]_vars

\* C3: when the save of a new Record resolves with a body whose attributes
\* hold no id, the Record's id becomes the id of the body's data object, the
\* body's attributes are set on it, and it is neither dirty nor in flight.
C3_SaveAdoptsDataId ==
    [][\A s \in Slots, body \in SaveBodies :
        (SaveBody(s, body) /\ isNewId(pending[s].tmpId) /\ body.id = NoId)
        => LET t == pending[s].target
           IN  /\ id'[t] = body.dataId
               /\ \A k \in PropNames \cap DOMAIN body :
                     body[k] # Undefined => props'[t][k] = body[k]
               /\ ~(_isDirty'[t] \/ isNewId(id'[t]))
               /\ ~isInFlight'[t]]_vars

\* C4: a Record constructed with no id is new and dirty; after a save of it
\* has resolved with 200/201 it is neither.
C4_NewUntilSaved ==
    [][/\ (last'.op = "add" /\ last'.arg = 0)
            => (isNewId(id'[last'.target])
                /\ (_isDirty'[last'.target] \/ isNewId(id'[last'.target])))
       /\ last'.op = "saveBody"
            => (~isNewId(id'[last'.target])
                /\ ~(_isDirty'[last'.target] \/ isNewId(id'[last'.target])))]_vars

\* C11: when the destroy of a persisted Record is answered with 202 or 204
\* and skipRemove is not set, no key of the Store resolves to the Record any
\* more and the promise resolves with the Record; with skipRemove the Store is
\* left alone; on any other status errors is {status}, the Store is left
\* alone and the promise resolves with the Record.
C11_DestroyRemoves ==
    [][/\ \A s \in Slots :
            (DestroyResponse(s, last'.arg) /\ last'.op = "destroyResponse")
            => LET t == pending[s].target
               IN  IF last'.arg \in {202, 204}
                   THEN IF pending[s].skipRemove THEN records' = records
                        ELSE \A k \in Keys : records'[k] # t
                   ELSE /\ errors'[t] = StatusError(last'.arg)
                        /\ records' = records
                        /\ last'.outcome = "resolved" /\ last'.value = t
       /\ last'.op = "destroyBody"
            => (last'.outcome = "resolved" /\ last'.value = last'.target)]_vars

C13_RollbackRestores ==
    [][\A i \in Inst :
        (last'.op = "rollback" /\ last'.target = i /\ last' # last)
        => /\ \A k \in AttributeNames : props'[i][k] = captured[i][k]
           /\ relationships'[i] = previousSnapshot[i].relationships
           /\ errors'[i] = NoErrors
           /\ DirtyAttributesOf(previousSnapshot'[i],
                                SnapshotOf(props'[i], relationships'[i])) = {}]_vars

\* C14: a persisted Record that a mutation made dirty is not dirty after
\* rollback().
C14_RollbackCleans ==
    [][\A i \in Inst :
        (last'.op = "rollback" /\ last'.target = i /\ last' # last
         /\ ~isNewId(id[i]) /\ _isDirty[i])
        => ~(_isDirty'[i] \/ isNewId(id'[i]))]_vars

\* C15: a Record constructed with initial attributes and an id that is not
\* temporary is not dirty; an assignment that changes a declared attribute or
\* the relationships makes it dirty; and a dirty Record stays dirty until a
\* save of it resolves with 200/201.
C15_DirtyUntilSaved ==
    [][/\ (last'.op = "add" /\ last'.arg = 1 /\ last' # last)
            => ~(_isDirty'[last'.target] \/ isNewId(id'[last'.target]))
       /\ \A i \in Inst :
            (\/ props'[i]["title"] # props[i]["title"]
             \/ relationships'[i] # relationships[i])
            /\ last'.op \in {"set", "setRelationship"}
            => (_isDirty'[i] \/ isNewId(id'[i]))
       /\ \A i \in Inst :
            ((_isDirty[i] \/ isNewId(id[i])) /\ ~(_isDirty'[i] \/ isNewId(id'[i])))
            => (last'.op = "saveBody" /\ last'.target = i)]_vars

\* C16: dirtyAttributes is the set of declared attributes whose value in the
\* previous snapshot differs from the current one, an attribute the previous
\* snapshot did not hold included.
C16_DirtyAttributesExact ==
    \A i \in Inst :
        made[i] =>
            dirtyAttributes(i) =
                {k \in AttributeNames :
                    previousSnapshot[i].attributes[k] # AttributesOf(props[i])[k]}

\* A request on Record i that has been issued and whose answer has not been
\* dealt with yet: a save until its handler has run (for 200/201, until the
\* body has been applied), a destroy until its response or rejection arrives.
Outstanding(i) ==
    \E s \in Slots :
        /\ pending[s].target = i
        /\ \/ pending[s].kind = "save"
           \/ pending[s].kind = "destroy" /\ pending[s].stage = "sent"

\* C17: in every state isInFlight is true exactly when a request on the
\* Record is outstanding, also when two requests on it overlap.
C17_InFlightIffOutstanding ==
    \A i \in Inst : made[i] => (isInFlight[i] <=> Outstanding(i))

\* C18: a save() that passes or skips validation issues exactly one request:
\* POST with no id in the URL and none in the body for a Record with a
\* temporary id, PATCH addressed to the Record's id otherwise.
C18_SaveIssuesOneRequest ==
    [][\A i \in Inst :
        (last'.op = "save" /\ last'.target = i /\ last' # last /\ last'.outcome # "rejected")
        => \E s \in Slots :
            /\ pending[s] = Idle
            /\ pending'[s].kind = "save" /\ pending'[s].target = i
            /\ \A u \in Slots \ {s} : pending'[u] = pending[u]
            /\ IF isNewId(id[i])
               THEN /\ pending'[s].method = "POST"
                    /\ pending'[s].requestId = NoId
                    /\ ~pending'[s].body.data.hasId
               ELSE /\ pending'[s].method = "PATCH"
                    /\ pending'[s].requestId = id[i]]_vars

\* The members of a request body b built by a save of Record i with the
\* options a and r: the selected declared attributes with the Record's
\* values (an undefined value reads back as undefined) and no other
\* attribute, and the selected relationships with their linked ids and no
\* other relationship. `unspecified` is the set of relationship names
\* selected when options.relationships is not given.
BodySelects(i, a, r, b, unspecified) ==
    LET attrs == IF a.given THEN AttributeNames \cap a.names ELSE AttributeNames
        rels == IF r.given THEN {n \in RelNames : relationships[i][n].present /\ n \in r.names}
                ELSE unspecified
        inBody == IF b.hasRelationships THEN DOMAIN b.relationships ELSE {}
    IN  /\ DOMAIN b.attributes \subseteq attrs
        /\ \A k \in attrs :
              IF k \in DOMAIN b.attributes THEN b.attributes[k] = props[i][k]
              ELSE props[i][k] = Undefined
        /\ inBody = rels
        /\ \A n \in inBody :
              /\ Len(b.relationships[n]) = Len(relationships[i][n].data)
              /\ \A x \in 1..Len(b.relationships[n]) :
                    b.relationships[n][x] = relationships[i][n].data[x]

\* A step in which Record i's save(options a, r) issued a request in slot s.
SaveIssued(i, a, r, s) ==
    /\ last'.op = "save" /\ last'.target = i /\ last'.outcome = "pending"
    /\ pending[s] = Idle /\ pending'[s].kind = "save"
    /\ \E skip \in BOOLEAN : save(i, skip, a, r)

C20_IdAndRelationshipsKeys ==
    \A i \in Inst, a \in AttributeOptions, r \in RelationshipOptions :
        (made[i] /\ ~jsonapiThrows(i, r))
        => LET e == jsonapi(i, a, r).data
           IN  /\ id[i] \in TmpIds => ~e.hasId
               /\ id[i] \notin TmpIds =>
                     /\ e.hasId
                     /\ e.id[1] = "srv"
                     /\ e.id[2] = id[i][2]
               /\ e.hasRelationships <=> r.given

\* A request of a Record whose id is a number: the body carries the id as a
\* string, and the relationships key that was asked for.
C20_Witness ==
    \E s \in Slots :
        /\ pending[s].kind = "save" /\ pending[s].stage = "sent"
        /\ id[pending[s].target] \in NumIds
        /\ pending[s].body.data.hasId
        /\ pending[s].body.data.id \in SrvIds
        /\ pending[s].body.data.hasRelationships

\* The resource of an encoded entry, and the entries that carry an id.
ResourceOf(e) == IF "data" \in DOMAIN e THEN e.data ELSE e
HasKey(e, k) == ResourceOf(e).hasId /\ ResourceOf(e).id = k

\* The Records a set of Records reaches through relationship identifiers.
RECURSIVE Reachable(_)
Reachable(S) ==
    LET linked == {j \in Inst : \E i \in S, r \in RelNames :
                      /\ relationships[i][r].present
                      /\ \E n \in 1..Len(relationships[i][r].data) :
                            /\ relationships[i][r].data[n] \in Keys
                            /\ records[relationships[i][r].data[n]] = j}
    IN  IF linked \subseteq S THEN S ELSE Reachable(S \cup linked)

Primaries == {srInput.items[n] : n \in 1..Len(srInput.items)}
OnRecords == srInput.kind = "model" \/ (srInput.kind = "array" /\ srInput.items # <<>>)

C7_InclusionComplete ==
    OnRecords =>
        /\ srResult.kind = "json"
        /\ \A j \in Reachable(Primaries) \ Primaries :
                \E m \in 1..Len(srResult.included) :
                    ResourceOf(srResult.included[m]) = ResourceOf(toFullJsonapi(j))

\* C21: serverResponse yields {data, included} for one Record, {data: [...],
\* included} for a non-empty array of Records, {data: []} without an included
\* key for an empty array, and raises an error, yielding no document, for a
\* null or undefined input.
C21_DocumentShape ==
    /\ srInput.kind = "model" =>
          /\ srResult.kind = "json" /\ ~srResult.isArray
          /\ srResult.hasIncluded /\ Len(srResult.data) = 1
    /\ (srInput.kind = "array" /\ srInput.items # <<>>) =>
          /\ srResult.kind = "json" /\ srResult.isArray
          /\ srResult.hasIncluded /\ Len(srResult.data) = Len(srInput.items)
    /\ (srInput.kind = "array" /\ srInput.items = <<>>) =>
          /\ srResult.kind = "json" /\ srResult.isArray
          /\ ~srResult.hasIncluded /\ srResult.data = <<>>
    /\ srInput.kind = "null" => srResult = Thrown("Error")

\* C22: a note is a member of a Todo's collection exactly when the note's
\* to-one references that Todo, after any adds, removes and assignments; add
\* sets the back-reference, remove clears it, and adding a member again
\* leaves the length of the collection unchanged.
C22_InverseConsistent ==
    [][/\ \A t \in Inst, n \in NoteInst : Contains(t, n)' <=> todo'[n] = t
       /\ \A t \in Inst, n \in NoteInst :
            /\ (last'.op = "notes.add" /\ last'.target = t /\ last'.arg = n)
               => /\ todo'[n] = t
                  /\ Contains(t, n) => Len(notes'[t]) = Len(notes[t])
            /\ (last'.op = "notes.remove" /\ last'.target = t /\ last'.arg = n
                /\ Contains(t, n))
               => todo'[n] = NoRec]_vars

\* C23: validate() resets errors, returns true exactly when every declared
\* attribute that has a validator passes it, and leaves errors keyed by
\* exactly the attributes whose validator failed; an attribute without a
\* validator yields no error, and the presence validator fails exactly on
\* null, undefined and the empty string.
C23_ValidateExact ==
    [][\A i \in Inst :
        (last'.op = "validate" /\ last'.target = i)
        => LET failed == {k \in AttributeNames \cap Validated :
                             props[i][k] \in {Null, Undefined, ""}}
           IN  /\ last'.outcome = "true" <=> failed = {}
               /\ last'.outcome \in {"true", "false"}
               /\ errors'[i].kind = IF failed = {} THEN "none" ELSE "validation"
               /\ errors'[i].keys = failed
               /\ errors'[i].keys \cap (AttributeNames \ Validated) = {}]_vars

\* validate() has failed on a null title and reports it alone: the blank
\* description has no validator.
C23_Witness ==
    /\ last.op = "validate" /\ last.outcome = "false"
    /\ props[last.target]["title"] = Null
    /\ props[last.target]["description"] = ""
    /\ errors[last.target] = ValidationErrors({"title"})

\* C24: a Record that a destroy answered 202/204 has removed from the Store
\* is never put back under any key by the response of a save that was in
\* flight on it. A Record with a server id that is under no key, with no
\* destroy of it outstanding, is one whose destroy has resolved with 202/204:
\* only a Record with a temporary id is removed without a request.
C24_NeverResurrected ==
    [][\A t \in Inst :
        (/\ made[t] /\ ~isNewId(id[t])
         /\ \A k \in Keys : records[k] # t
         /\ \A s \in Slots : ~(pending[s].kind = "destroy" /\ pending[s].target = t))
        => \A k \in Keys : records'[k] # t]_vars

\* C25: when a save succeeds while the Record holds a declared attribute
\* value that was neither sent in the request body nor returned in the
\* response, the Record stays dirty and previousSnapshot does not take the
\* unsent value.
C25_UnsentStaysDirty ==
    [][\A s \in Slots, body \in SaveBodies :
        (last'.op = "saveBody" /\ SaveBody(s, body))
        => LET t == pending[s].target
               sent == pending[s].body.data.attributes
               unsent == {k \in AttributeNames :
                            /\ ~(k \in DOMAIN body /\ body[k] # Undefined)
                            /\ IF k \in DOMAIN sent THEN sent[k] # props'[t][k]
                               ELSE props'[t][k] # Undefined}
           IN  unsent # {}
               => /\ _isDirty'[t] \/ isNewId(id'[t])
                  /\ \A k \in unsent :
                        previousSnapshot'[t].attributes[k] # props'[t][k]]_vars

\* C26: every save whose transport call settles eventually leaves the Record
\* with isInFlight false, whatever the outcome: 200/201, another status, a
\* rejection, or a 200/201 whose body cannot be parsed or has no data.
C26_InFlightEnds ==
    \A i \in Inst :
        (\E s \in Slots : pending[s].kind = "save" /\ pending[s].target = i)
        ~> ~isInFlight[i]

\* C27: after a save that resolves with status 200/201 the Record's errors
\* map is empty, also when the save skipped validation on a Record that
\* carried errors of an earlier failed save or destroy.
C27_SuccessClearsErrors ==
    [][\A i \in Inst :
        (last'.op = "saveBody" /\ last'.outcome = "resolved" /\ last'.target = i
         /\ \E s \in Slots : pending[s].kind = "save" /\ pending'[s] = Idle)
        => errors'[i] = NoErrors]_vars

\* C28: serverResponse raises no error for a Record or an array of Records:
\* a to-one with no linked record (data null) and an identifier whose Record
\* is not in the Store are skipped, so that the document is returned and
\* every resource it includes is a Record of the Store.
C28_NoErrorOnRecords ==
    OnRecords =>
        /\ srResult.kind = "json"
        /\ \A m \in 1..Len(srResult.included) :
              \E k \in Keys : records[k] # NoRec /\ HasKey(srResult.included[m], k)

C8_ValidationShortCircuits ==
    [][\A i \in Inst :
        (last'.op = "save" /\ last'.target = i /\ last'.arg = 0
         /\ FailedValidations(i) # {})
        => /\ pending' = pending
           /\ last'.outcome = "rejected"
           /\ last'.error = errors'[i]
           /\ errors'[i] = ValidationErrors(FailedValidations(i))
           /\ isInFlight' = isInFlight
           /\ props' = props
           /\ relationships' = relationships
           /\ previousSnapshot' = previousSnapshot
           /\ records' = records]_vars

C8_Witness ==
    /\ last.op = "save" /\ last.arg = 0 /\ last.outcome = "rejected"
    /\ FailedValidations(last.target) # {}
    /\ records[id[last.target]] = last.target

\* C9: a save response with a status other than 200 and 201 resolves the
\* promise with the Record, sets errors to {status} and isInFlight to false,
\* and leaves attributes, relationships, dirty flag, snapshot and Store alone.
C9_ErrorStatusAbsorbed ==
    [][(last'.op = "saveResponse" /\ last'.arg \notin {200, 201})
        => LET t == last'.target
           IN  /\ last'.outcome = "resolved"
               /\ last'.value = t
               /\ errors'[t] = StatusError(last'.arg)
               /\ ~isInFlight'[t]
               /\ props' = props
               /\ relationships' = relationships
               /\ _isDirty' = _isDirty
               /\ previousSnapshot' = previousSnapshot
               /\ id' = id
               /\ records' = records]_vars

C9_Witness ==
    /\ last.op = "saveResponse" /\ last.arg \notin {200, 201}
    /\ _isDirty[last.target]
    /\ previousSnapshot[last.target] # snapshot(last.target)

\* C10: when the transport call of a save or a destroy rejects, the promise
\* rejects with that error, errors is that error, isInFlight is false and
\* the Store still holds the Record under the same keys.
C10_TransportFailureRejects ==
    [][(last'.op \in {"saveReject", "destroyReject"})
        => LET t == last'.target
           IN  /\ last'.outcome = "rejected"
               /\ last'.error = RawError(last'.arg)
               /\ errors'[t] = RawError(last'.arg)
               /\ ~isInFlight'[t]
               /\ id' = id
               /\ records' = records]_vars

C10_Witness ==
    /\ last.op = "destroyReject"
    /\ records[id[last.target]] = last.target
    /\ records[TmpId(last.target)] = last.target

====
